---- MODULE Spec2Model ----
(***************************************************************************)
(* Write pipeline of the datastore writer (SqlDatabaseBackendService):     *)
(* insert_events, reserve_next_ids and the tables they maintain, run by    *)
(* concurrent request handlers, each inside one database transaction.      *)
(* Its auxiliary operations truncate_db (behind dev_only_route) and        *)
(* delete_history_information, the migration reader's existence queries,   *)
(* and BaseMigration.migrate with the two keyframe accessors, run position *)
(* by position.                                                            *)
(***************************************************************************)
EXTENDS Integers, Sequences, FiniteSets, TLC

(* ------------------------------ bounds -------------------------------- *)

\* number of calls (insert_events, reserve_next_ids) started in one behaviour
MaxCalls == 3

(* ------------------------- program constants -------------------------- *)

COLLECTION_MAX_LEN == 32
FQID_MAX_LEN == 48
COLLECTIONFIELD_MAX_LEN == 239

\* JSON null, the value of a field that an update removes
Null == 0

(* ------------------------------ inputs -------------------------------- *)

Writers == {"w1", "w2"}

\* collection names; "long" stands for a name of 47 characters
Collections == {"a", "b", "long"}
\* field names; "wide" stands for a name of 236 characters
Fields == {"f", "g", "l", "wide"}

EmptyFn == [x \in {} |-> 0]

\* len() of a collection or field name
NameLen(name) ==
    CASE name = "long" -> 47
      [] name = "wide" -> 236
      [] name = "" -> 0
      [] OTHER -> 1

\* number of decimal digits of an id (ids of the model stay below 100)
Digits(id) == IF id < 10 THEN 1 ELSE 2

\* an fqid is "collection/id", kept as the pair of its parts
fqid_from_collection_and_id(collection, id) == <<collection, id>>

collection_and_id_from_fqid(fqid) == <<fqid[1], fqid[2]>>

\* len(fqid) of the string "collection/id"
FqidLen(fqid) == NameLen(fqid[1]) + 1 + Digits(fqid[2])

\* the collectionfield key of a field of a model, kept as the pair of its parts
collectionfield_from_fqid_and_field(fqid, field) == <<fqid, field>>

\* len(collectionfield) of the string "fqid/field"
CollectionfieldLen(cf) == FqidLen(cf[1]) + 1 + NameLen(cf[2])

(* --------------------------- write-intents ---------------------------- *)

RequestCreateEvent(fqid, fields) ==
    [type |-> "create", fqid |-> fqid, fields |-> fields,
     add |-> EmptyFn, remove |-> EmptyFn]

\* fields maps a field to its new value, or to Null to remove it
RequestUpdateEvent(fqid, fields, add, remove) ==
    [type |-> "update", fqid |-> fqid, fields |-> fields,
     add |-> add, remove |-> remove]

RequestDeleteEvent(fqid) ==
    [type |-> "delete", fqid |-> fqid, fields |-> EmptyFn,
     add |-> EmptyFn, remove |-> EmptyFn]

(* ----------------------------- db events ------------------------------ *)

\* the payload of an event row: fields for create and update, names for
\* delete_fields, add and remove for list_update, nothing for delete
NoData == [fields |-> EmptyFn, names |-> {}, add |-> EmptyFn, remove |-> EmptyFn]

DbCreateEvent(fqid, fields) ==
    [type |-> "create", fqid |-> fqid, data |-> [NoData EXCEPT !.fields = fields]]

DbUpdateEvent(fqid, fields) ==
    [type |-> "update", fqid |-> fqid, data |-> [NoData EXCEPT !.fields = fields]]

DbDeleteFieldsEvent(fqid, names) ==
    [type |-> "delete_fields", fqid |-> fqid, data |-> [NoData EXCEPT !.names = names]]

DbListUpdateEvent(fqid, add, remove) ==
    [type |-> "list_update", fqid |-> fqid,
     data |-> [NoData EXCEPT !.add = add, !.remove = remove]]

DbDeleteEvent(fqid) ==
    [type |-> "delete", fqid |-> fqid, data |-> NoData]

(* ------------------------- model projection --------------------------- *)

\* f with the keys of g set to g's values (dict.update)
Merge(f, g) ==
    [k \in DOMAIN f \cup DOMAIN g |-> IF k \in DOMAIN g THEN g[k] ELSE f[k]]

\* f without the keys in names
Without(f, names) == [k \in DOMAIN f \ names |-> f[k]]

\* the values of seq that are not in the sequence gone, in order
RECURSIVE RemoveValues(_, _)
RemoveValues(seq, gone) ==
    IF seq = <<>> THEN <<>>
    ELSE LET rest == RemoveValues(Tail(seq), gone)
         IN IF \E i \in 1..Len(gone) : gone[i] = Head(seq)
            THEN rest ELSE <<Head(seq)>> \o rest

\* list_update on the data of a model: add appends, remove deletes; a field
\* for which neither carries a value is left as it is
ListUpdate(data, add, remove) ==
    [k \in DOMAIN data \cup {f \in DOMAIN add : add[f] # <<>>}
                       \cup {f \in DOMAIN remove : remove[f] # <<>>} |->
        IF k \in DOMAIN add \cup DOMAIN remove
        THEN LET old == IF k \in DOMAIN data THEN data[k] ELSE <<>>
                 new == IF k \in DOMAIN add THEN old \o add[k] ELSE old
             IN IF k \in DOMAIN remove THEN RemoveValues(new, remove[k]) ELSE new
        ELSE data[k]]

\* db_events.apply_event_to_models: the merge rules of the five event kinds
\* on the table of models; position 0 stands for "not stamped yet"
apply_event_to_models(event, models) ==
    LET fqid == event.fqid
        old == models[fqid]
        new ==
            CASE event.type = "create" ->
                    [data |-> event.data.fields, deleted |-> FALSE, position |-> 0]
              [] event.type = "update" ->
                    [old EXCEPT !.data = Merge(old.data, event.data.fields)]
              [] event.type = "delete_fields" ->
                    [old EXCEPT !.data = Without(old.data, event.data.names)]
              [] event.type = "list_update" ->
                    [old EXCEPT !.data = ListUpdate(old.data, event.data.add, event.data.remove)]
              [] OTHER -> [old EXCEPT !.deleted = TRUE]
    IN [q \in DOMAIN models \cup {fqid} |-> IF q = fqid THEN new ELSE models[q]]

\* SqlDatabaseBackendService.apply_event_to_models: apply, then stamp the position
ApplyAndStamp(event, models, position) ==
    LET applied == apply_event_to_models(event, models)
    IN [applied EXCEPT ![event.fqid].position = position]

(* --------------------------- event translator ------------------------- *)

Exists(fqid, models) == fqid \in DOMAIN models /\ ~models[fqid].deleted

\* the precondition of a write-intent against the prefetched models
PreconditionHolds(event, models) ==
    IF event.type = "create" THEN ~Exists(event.fqid, models)
    ELSE Exists(event.fqid, models)

\* the db events of an update: update, delete_fields, list_update, each only
\* when it carries something
UpdateEvents(event) ==
    LET set == {k \in DOMAIN event.fields : event.fields[k] # Null}
        gone == DOMAIN event.fields \ set
    IN (IF set # {} THEN <<DbUpdateEvent(event.fqid, [k \in set |-> event.fields[k]])>>
        ELSE <<>>)
       \o (IF gone # {} THEN <<DbDeleteFieldsEvent(event.fqid, gone)>> ELSE <<>>)
       \o (IF DOMAIN event.add \cup DOMAIN event.remove # {}
           THEN <<DbListUpdateEvent(event.fqid, event.add, event.remove)>> ELSE <<>>)

\* EventTranslator.translate: the db events of one write-intent
translate(event, models) ==
    CASE event.type = "create" -> <<DbCreateEvent(event.fqid, event.fields)>>
      [] event.type = "update" -> UpdateEvents(event)
      [] OTHER -> <<DbDeleteEvent(event.fqid)>>

\* BaseDbEvent.get_modified_fields: the names of the fields an event touches;
\* a delete touches every field the model holds
get_modified_fields(event, models) ==
    CASE event.type \in {"create", "update"} -> DOMAIN event.data.fields
      [] event.type = "delete_fields" -> event.data.names
      [] event.type = "list_update" -> DOMAIN event.data.add \cup DOMAIN event.data.remove
      [] OTHER -> DOMAIN models[event.fqid].data

(* ------------------ the translation loop of insert_events ------------- *)

FieldOrder == <<"f", "g", "l", "wide">>

\* the names in the set, in the order a dict of them is iterated
RECURSIVE InOrder(_, _)
InOrder(names, i) ==
    IF i > Len(FieldOrder) THEN <<>>
    ELSE (IF FieldOrder[i] \in names THEN <<FieldOrder[i]>> ELSE <<>>)
         \o InOrder(names, i + 1)

\* get_modified_collectionfields_from_event
get_modified_collectionfields_from_event(event, models) ==
    LET names == InOrder(get_modified_fields(event, models), 1)
    IN [i \in 1..Len(names) |-> collectionfield_from_fqid_and_field(event.fqid, names[i])]

\* event_indices_per_modified_collectionfield[collectionfield].append(index):
\* the dict is a sequence of <<key, indices>> in insertion order
RECURSIVE AppendIndex(_, _, _)
AppendIndex(indices, collectionfield, index) ==
    IF indices = <<>> THEN << <<collectionfield, <<index>> >> >>
    ELSE IF Head(indices)[1] = collectionfield
         THEN << <<collectionfield, Append(Head(indices)[2], index)>> >> \o Tail(indices)
         ELSE <<Head(indices)>> \o AppendIndex(Tail(indices), collectionfield, index)

RECURSIVE AppendIndices(_, _, _)
AppendIndices(indices, collectionfields, index) ==
    IF collectionfields = <<>> THEN indices
    ELSE AppendIndices(AppendIndex(indices, Head(collectionfields), index),
                       Tail(collectionfields), index)

\* the index an event is filed under: weight is 1-indexed, the ids 0-indexed
EventIndex(weight) == weight - 1

\* max_id_per_collection[collection] = max(max_id_per_collection.get(collection, 0), id + 1)
NoteMaxId(max_id, fqid) ==
    LET collection == collection_and_id_from_fqid(fqid)[1]
        id == collection_and_id_from_fqid(fqid)[2]
        old == IF collection \in DOMAIN max_id THEN max_id[collection] ELSE 0
    IN [c \in DOMAIN max_id \cup {collection} |->
           IF c = collection THEN (IF old > id + 1 THEN old ELSE id + 1) ELSE max_id[c]]

\* the locals of the loop before its first iteration
LoopStart(models) ==
    [ok |-> TRUE, weight |-> 0, models |-> models, events_data |-> <<>>,
     indices |-> <<>>, max_id |-> EmptyFn]

\* the body of the inner loop for one db event
HandleDbEvent(db_event, acc, position) ==
    LET weight == acc.weight + 1
        touched == get_modified_collectionfields_from_event(db_event, acc.models)
    IN [acc EXCEPT
           !.weight = weight,
           !.events_data = Append(@, [position |-> position, fqid |-> db_event.fqid,
                                      type |-> db_event.type, data |-> db_event.data,
                                      weight |-> weight,
                                      modified |-> get_modified_fields(db_event, acc.models)]),
           !.indices = AppendIndices(@, touched, EventIndex(weight)),
           !.max_id = IF db_event.type = "create" THEN NoteMaxId(@, db_event.fqid) ELSE @,
           !.models = ApplyAndStamp(db_event, @, position)]

\* the db events of a write-intent are handled last one first
RECURSIVE HandleDbEvents_last_first(_, _, _)
HandleDbEvents_last_first(db_events, acc, position) ==
    IF db_events = <<>> THEN acc
    ELSE HandleDbEvent(Head(db_events),
                       HandleDbEvents_last_first(Tail(db_events), acc, position),
                       position)

\* the inner loop over the db events of one write-intent
RECURSIVE HandleDbEvents(_, _, _)
HandleDbEvents(db_events, acc, position) ==
    IF db_events = <<>> THEN acc
    ELSE HandleDbEvents(Tail(db_events), HandleDbEvent(Head(db_events), acc, position),
                        position)

\* a loop that passes over a write-intent whose precondition fails
RECURSIVE TranslateLoop_skipping(_, _, _)
TranslateLoop_skipping(events, acc, position) ==
    IF events = <<>> THEN acc
    ELSE IF ~PreconditionHolds(Head(events), acc.models)
    THEN TranslateLoop_skipping(Tail(events), acc, position)
    ELSE TranslateLoop_skipping(Tail(events),
                       HandleDbEvents(translate(Head(events), acc.models), acc, position),
                       position)

\* the loop over the write-intents: a failed precondition ends it
RECURSIVE TranslateLoop(_, _, _)
TranslateLoop(events, acc, position) ==
    IF events = <<>> THEN acc
    ELSE IF ~PreconditionHolds(Head(events), acc.models) THEN [acc EXCEPT !.ok = FALSE]
    ELSE TranslateLoop(Tail(events),
                       HandleDbEvents(translate(Head(events), acc.models), acc, position),
                       position)

(* ----------------------- the write statements ------------------------ *)

Greatest(x, y) == IF x > y THEN x ELSE y

\* an upsert that stores the excluded id whatever the stored one is
update_id_sequences_excluded(table, max_id_per_collection) ==
    [c \in DOMAIN max_id_per_collection |-> max_id_per_collection[c]]

\* update_id_sequences: the rows the upsert leaves, given the table
update_id_sequences(table, max_id_per_collection) ==
    [c \in DOMAIN max_id_per_collection |->
        IF c \in DOMAIN table
        THEN Greatest(table[c], max_id_per_collection[c])
        ELSE max_id_per_collection[c]]

\* the upsert of write_model_updates_action_worker: data is merged into the
\* stored data instead of replacing it
write_model_updates_merging(table, models) ==
    [fqid \in DOMAIN models |->
        IF fqid \in DOMAIN table
        THEN [models[fqid] EXCEPT !.data = Merge(table[fqid].data, models[fqid].data)]
        ELSE models[fqid]]

\* write_model_updates: the rows the upsert leaves, given the table: data and
\* deleted are replaced by the excluded row's
write_model_updates(table, models) ==
    [fqid \in DOMAIN models |-> models[fqid]]

\* write_events: the inserted rows; ids are drawn from events_id_seq in order
write_events(events_data, seq) ==
    {[id |-> seq + i - 1, position |-> events_data[i].position,
      fqid |-> events_data[i].fqid, type |-> events_data[i].type,
      data |-> events_data[i].data, weight |-> events_data[i].weight,
      modified |-> events_data[i].modified] : i \in 1..Len(events_data)}

\* the ids write_events returns, in the order of events_data
EventIds(events_data, seq) == [i \in 1..Len(events_data) |-> seq + i - 1]

\* the length check of insert_modified_collectionfields_into_db
SomeCollectionfieldTooLong(indices) ==
    \E i \in 1..Len(indices) : CollectionfieldLen(indices[i][1]) > COLLECTIONFIELD_MAX_LEN

\* the position the upsert of a collectionfield row stores
UpsertPosition(old, excluded) == excluded

\* insert_modified_collectionfields_into_db: the row of the i-th key after the
\* upsert; every attempted row draws a value of collectionfields_id_seq, an
\* existing row keeps its id
CollectionfieldRow(table, indices, i, position, seq) ==
    LET key == indices[i][1]
        old == {r \in table : r.collectionfield = key}
    IN IF old = {}
       THEN [id |-> seq + i - 1, collectionfield |-> key, position |-> position]
       ELSE LET r == CHOOSE r \in old : TRUE
            IN [r EXCEPT !.position = UpsertPosition(r.position, position)]

insert_modified_collectionfields_into_db(table, indices, position, seq) ==
    [i \in 1..Len(indices) |-> CollectionfieldRow(table, indices, i, position, seq)]

\* links only the first indexed event of each collectionfield
connect_first_event_only(event_ids, collectionfield_ids, indices) ==
    {<<event_ids[indices[i][2][1] + 1], collectionfield_ids[i]>> :
        i \in 1..(IF Len(collectionfield_ids) < Len(indices)
                  THEN Len(collectionfield_ids) ELSE Len(indices))}

\* connect_events_and_collection_fields: zip the returned collectionfield ids
\* with the index lists, and link each indexed event id
connect_events_and_collection_fields(event_ids, collectionfield_ids, indices) ==
    LET n == IF Len(collectionfield_ids) < Len(indices)
             THEN Len(collectionfield_ids) ELSE Len(indices)
    IN UNION {{<<event_ids[indices[i][2][j] + 1], collectionfield_ids[i]>> :
                   j \in 1..Len(indices[i][2])} : i \in 1..n}

\* get_models_from_events: the length check
SomeFqidTooLong(events) ==
    \E i \in 1..Len(events) : FqidLen(events[i].fqid) > FQID_MAX_LEN

\* read_database.get_many of the fqids of the events, deleted models included
get_models_from_events(table, events) ==
    LET fqids == {events[i].fqid : i \in 1..Len(events)}
    IN [fqid \in fqids \cap DOMAIN table |-> table[fqid]]

\* an upsert that adds the whole excluded id, amount + 1
ReserveUpsert_plus_one(table, collection, amount) ==
    IF collection \in DOMAIN table
    THEN table[collection] + (amount + 1)
    ELSE amount + 1

\* an upsert that stores the excluded id whatever the stored one is
ReserveUpsert_excluded(table, collection, amount) == amount + 1

\* reserve_next_ids: the row the upsert leaves; the statement inserts amount + 1
\* and on conflict sets id = id_sequences.id + excluded.id - 1
ReserveUpsert(table, collection, amount) ==
    IF collection \in DOMAIN table
    THEN table[collection] + (amount + 1) - 1
    ELSE amount + 1

\* list(range(new_max_id - amount, new_max_id))
ReservedRange(new_max_id, amount) ==
    [i \in 1..amount |-> new_max_id - amount + i - 1]

\* a position read from the committed rows instead of drawn from the sequence
create_position_from_rows(seq, table) ==
    IF table = {} THEN 1
    ELSE 1 + (CHOOSE p \in {r.position : r \in table} :
                 \A r \in table : r.position <= p)

\* create_position: the position the insert into positions returns, drawn from
\* positions_position_seq
create_position(seq, table) == seq

(* ----------------------- the calls that are made ---------------------- *)

A1 == <<"a", 1>>
A2 == <<"a", 2>>
B1 == <<"b", 1>>
Long1 == <<"long", 1>>

\* the event lists insert_events is called with
Batches ==
    { <<>>,
      <<RequestCreateEvent(A1, [f |-> 1])>>,
      <<RequestCreateEvent(A1, [f |-> 1, g |-> 2]),
        RequestUpdateEvent(A1, [f |-> 2, g |-> Null], EmptyFn, EmptyFn)>>,
      <<RequestUpdateEvent(A1, [f |-> 2], EmptyFn, EmptyFn),
        RequestUpdateEvent(A1, [f |-> 1, g |-> 1], EmptyFn, EmptyFn),
        RequestCreateEvent(A2, [f |-> 1])>>,
      <<RequestUpdateEvent(A1, [g |-> Null], EmptyFn, EmptyFn)>>,
      <<RequestDeleteEvent(A1)>>,
      <<RequestCreateEvent(A2, [l |-> <<1>>]),
        RequestUpdateEvent(A2, EmptyFn, [l |-> <<2>>], [l |-> <<1>>])>>,
      <<RequestCreateEvent(B1, [f |-> 1]),
        RequestUpdateEvent(A1, [g |-> 1], EmptyFn, EmptyFn)>>,
      <<RequestCreateEvent(Long1, [f |-> 1])>>,
      <<RequestCreateEvent(B1, [wide |-> 1])>> }

\* the (collection, amount) reserve_next_ids is called with
ReserveArgs == { <<"a", 1>>, <<"a", 3>>, <<"a", 9>>, <<"a", 0>>, <<"", 1>>, <<"long", 1>> }

(* ------------------------- migration events --------------------------- *)

\* the events a migration reads and returns; same payload layout as a row
CreateEvent(fqid, data) ==
    [type |-> "create", fqid |-> fqid, data |-> [NoData EXCEPT !.fields = data]]

UpdateEvent(fqid, data) ==
    [type |-> "update", fqid |-> fqid, data |-> [NoData EXCEPT !.fields = data]]

DeleteFieldsEvent(fqid, data) ==
    [type |-> "delete_fields", fqid |-> fqid, data |-> [NoData EXCEPT !.names = data]]

ListUpdateEvent(fqid, add, remove) ==
    [type |-> "list_update", fqid |-> fqid,
     data |-> [NoData EXCEPT !.add = add, !.remove = remove]]

DeleteEvent(fqid) ==
    [type |-> "delete", fqid |-> fqid, data |-> NoData]

\* BaseEvent.clone: a new event object with a deep copy of the payload, so
\* that later changes of the original object do not reach the clone
clone(event) ==
    [type |-> event.type, fqid |-> event.fqid,
     data |-> [k \in DOMAIN event.data |-> event.data[k]]]

(* ------------------------- keyframe accessor -------------------------- *)

\* MigrationKeyframeAccessor.apply_event: the merge rules of the projection
\* on the models the accessor holds
apply_event(accessor, event) == apply_event_to_models(event, accessor)

\* false for a model never created and for one whose last state is deleted
model_not_deleted(accessor, fqid) ==
    fqid \in DOMAIN accessor /\ ~accessor[fqid].deleted

\* apply_event for each event of a list, in order
RECURSIVE ApplyAll(_, _)
ApplyAll(accessor, list) ==
    IF list = <<>> THEN accessor
    ELSE ApplyAll(apply_event(accessor, Head(list)), Tail(list))

\* what the accessor shows of its models: their data and deleted flag
View(accessor) ==
    [q \in DOMAIN accessor |->
        [data |-> accessor[q].data, deleted |-> accessor[q].deleted]]

\* apply_event accepts the event: only a create may name an absent model
Applicable(accessor, event) ==
    event.type = "create" \/ event.fqid \in DOMAIN accessor

RECURSIVE AllApplicable(_, _)
AllApplicable(accessor, list) ==
    IF list = <<>> THEN TRUE
    ELSE /\ Applicable(accessor, Head(list))
         /\ AllApplicable(apply_event(accessor, Head(list)), Tail(list))

(* -------------------------- migration engine -------------------------- *)

\* dict.get(fqid): the entry, or None
StatusGet(model_status, fqid) ==
    IF fqid \in DOMAIN model_status THEN model_status[fqid] ELSE "None"

\* the loop of _set_model_status over the events, from the status so far
RECURSIVE SetModelStatusLoop(_, _)
SetModelStatusLoop(list, model_status) ==
    IF list = <<>> THEN model_status
    ELSE LET event == Head(list)
             next == IF /\ event.type \in {"create", "delete"}
                        /\ StatusGet(model_status, event.fqid) # "delete"
                     THEN Merge(model_status, [q \in {event.fqid} |-> event.type])
                     ELSE model_status
         IN SetModelStatusLoop(Tail(list), next)

\* a later create or delete overwrites whatever the status was
RECURSIVE SetModelStatusLastWins(_, _)
SetModelStatusLastWins(list, model_status) ==
    IF list = <<>> THEN model_status
    ELSE LET event == Head(list)
             next == IF event.type \in {"create", "delete"}
                     THEN Merge(model_status, [q \in {event.fqid} |-> event.type])
                     ELSE model_status
         IN SetModelStatusLastWins(Tail(list), next)

set_model_status_last_wins(list) == SetModelStatusLastWins(list, EmptyFn)
\* BaseMigration._set_model_status: the status starts empty in each position
set_model_status(list) == SetModelStatusLoop(list, EmptyFn)

\* the generator order_events: a create is yielded at once, any other event
\* is queued and yielded after the input is exhausted
RECURSIVE OrderEventsLoop(_, _)
OrderEventsLoop(list, events_queue) ==
    IF list = <<>> THEN events_queue
    ELSE IF Head(list).type = "create"
         THEN <<Head(list)>> \o OrderEventsLoop(Tail(list), events_queue)
         ELSE OrderEventsLoop(Tail(list), Append(events_queue, Head(list)))

\* the events are yielded in the order they come in
order_events_as_given(list) == list
\* the queued events are yielded first
order_events_queue_first(list) ==
    SelectSeq(list, LAMBDA e : e.type # "create")
        \o SelectSeq(list, LAMBDA e : e.type = "create")
order_events(list) == OrderEventsLoop(list, <<>>)

\* any(value for field in (add, remove) for value in field.values())
AnyListValue(event) ==
    \/ \E k \in DOMAIN event.data.add : event.data.add[k] # <<>>
    \/ \E k \in DOMAIN event.data.remove : event.data.remove[k] # <<>>

\* the test of _filter_noop_events: the event is skipped
IsNoop(event) ==
    CASE event.type = "update" -> event.data.fields = EmptyFn
      [] event.type = "list_update" -> ~AnyListValue(event)
      [] event.type = "delete_fields" -> event.data.names = {}
      [] OTHER -> FALSE

\* every event with an empty payload is skipped, creates and deletes too
filter_noop_events_by_payload(list) ==
    SelectSeq(list, LAMBDA e : ~(IsNoop(e) \/ e.data = NoData))
\* BaseMigration._filter_noop_events
filter_noop_events(list) == SelectSeq(list, LAMBDA e : ~IsNoop(e))

\* BaseMigration.will_exist
will_exist(fqid, new_accessor, model_status) ==
    \/ /\ model_not_deleted(new_accessor, fqid)
       /\ StatusGet(model_status, fqid) # "delete"
    \/ StatusGet(model_status, fqid) = "create"

(* -------------------------- migration reader -------------------------- *)

\* read_database.get_deleted_status: the deleted flag of each of the fqids
\* that has a row in the models table
get_deleted_status(models, fqids) ==
    [q \in fqids \cap DOMAIN models |-> models[q].deleted]

\* not status.get(fqid)
is_alive_unless_deleted(models, fqid) ==
    LET status == get_deleted_status(models, {fqid})
    IN ~(fqid \in DOMAIN status /\ status[fqid])
\* MigrationReaderImplementation.is_alive: status.get(fqid) is False
is_alive(models, fqid) ==
    LET status == get_deleted_status(models, {fqid})
    IN fqid \in DOMAIN status /\ status[fqid] = FALSE

\* MigrationReaderImplementation.is_deleted: status.get(fqid) is True
is_deleted(models, fqid) ==
    LET status == get_deleted_status(models, {fqid})
    IN fqid \in DOMAIN status /\ status[fqid] = TRUE

\* MigrationReaderImplementation.model_exists
model_exists(models, fqid) ==
    LET status == get_deleted_status(models, {fqid})
    IN fqid \in DOMAIN status

\* MigrationReaderImplementationMemory: models is its dict of fqid to model
memory_model_exists(models, fqid) == fqid \in DOMAIN models

memory_is_alive(models, fqid) == memory_model_exists(models, fqid)

memory_is_deleted(models, fqid) == FALSE

(* ------------------------------ state --------------------------------- *)

VARIABLES
    positions_seq,      \* next value of positions_position_seq
    events_seq,         \* next value of events_id_seq
    collectionfields_seq, \* next value of collectionfields_id_seq
    positions,          \* committed rows of table positions
    models,             \* committed rows of table models, by fqid
    events,             \* committed rows of table events
    collectionfields,   \* committed rows of table collectionfields
    events_to_collectionfields, \* committed rows of the link table
    id_sequences,       \* committed rows of table id_sequences, by collection
    pc,                 \* where each request handler stands
    tx,                 \* each handler's call: its locals and uncommitted writes
    ncalls,             \* calls started so far
    allocated,          \* the positions create_position returned, in order
    finished,           \* the calls that have returned, with what they returned
    m_pc,               \* where the call of migrate stands
    position_events,    \* the events migrate was called with
    ordered,            \* what order_events yields for them
    m_index,            \* how many of these the loop of migrate has taken
    old_accessor,       \* the models of the old keyframe accessor
    new_accessor,       \* the models of the new keyframe accessor
    model_status,       \* BaseMigration.model_status
    new_events,         \* the list migrate builds and returns
    translated,         \* the translated_events of the position, unfiltered
    additional,         \* the additional_events of the position
    pre_new,            \* new_accessor as it was when migrate was called
    pre_old,            \* old_accessor as it was when migrate was called
    m_error,            \* the error migrate_event raised, and the one migrate raised
    all_none,           \* every call of migrate_event and of the hook returned None
    original,           \* the models as recorded before the position
    returned_state,     \* the lists migrate has returned so far, folded
    npositions          \* positions migrated or being migrated

writer_vars == <<positions_seq, events_seq, collectionfields_seq, positions, models,
                 events, collectionfields, events_to_collectionfields, id_sequences,
                 pc, tx, ncalls, allocated, finished>>

migration_vars == <<m_pc, position_events, ordered, m_index, old_accessor,
                    new_accessor, model_status, new_events, translated,
                    additional, pre_new, pre_old, m_error, all_none, original,
                    returned_state, npositions>>

vars == <<writer_vars, migration_vars>>

sequences == <<positions_seq, events_seq, collectionfields_seq>>

tables == <<positions, models, events, collectionfields,
            events_to_collectionfields, id_sequences>>

\* a handler with no call: no locals, no uncommitted write
NoTx ==
    [call |-> 0, kind |-> "none", error |-> "none",
     events |-> <<>>, position |-> 0, models |-> EmptyFn,
     collection |-> "", amount |-> 0, result |-> <<>>,
     dev_mode |-> FALSE, args |-> <<>>, fn_called |-> FALSE, fn_args |-> <<>>,
     w_positions |-> {}, w_models |-> EmptyFn, w_id_sequences |-> EmptyFn,
     w_events |-> {}, w_collectionfields |-> {}, w_links |-> {}]


(* ------------------------------ locks --------------------------------- *)

\* the rows a transaction has written and not committed: it holds their locks
LockedModels(w) == DOMAIN tx[w].w_models
LockedSequences(w) == DOMAIN tx[w].w_id_sequences
LockedCollectionfields(w) == {r.collectionfield : r \in tx[w].w_collectionfields}

\* no other transaction holds a lock on any of these rows
Free(w, fqids, collections, keys) ==
    \A v \in Writers \ {w} :
        /\ LockedModels(v) \cap fqids = {}
        /\ LockedSequences(v) \cap collections = {}
        /\ LockedCollectionfields(v) \cap keys = {}

(* ----------------------------- actions -------------------------------- *)

Init ==
    /\ positions_seq = 1
    /\ events_seq = 1
    /\ collectionfields_seq = 1
    /\ positions = {}
    /\ models = EmptyFn
    /\ events = {}
    /\ collectionfields = {}
    /\ events_to_collectionfields = {}
    /\ id_sequences = EmptyFn
    /\ pc = [w \in Writers |-> "idle"]
    /\ tx = [w \in Writers |-> NoTx]
    /\ ncalls = 0
    /\ allocated = <<>>
    /\ finished = {}
    /\ m_pc = "idle"
    /\ position_events = <<>>
    /\ ordered = <<>>
    /\ m_index = 0
    /\ old_accessor = EmptyFn
    /\ new_accessor = EmptyFn
    /\ model_status = EmptyFn
    /\ new_events = <<>>
    /\ translated = <<>>
    /\ additional = <<>>
    /\ pre_new = EmptyFn
    /\ pre_old = EmptyFn
    /\ m_error = [transform |-> "none", migrate |-> "none"]
    /\ all_none = TRUE
    /\ original = EmptyFn
    /\ returned_state = EmptyFn
    /\ npositions = 0

\* insert_events without the check of the event list
InsertEvents_unchecked(w, events_, migration_index, information, user_id) ==
    /\ pc[w] = "idle"
    /\ ncalls < MaxCalls
    /\ ncalls' = ncalls + 1
    /\ LET position == create_position(positions_seq, positions)
       IN /\ positions_seq' = positions_seq + 1
          /\ allocated' = Append(allocated, position)
          /\ pc' = [pc EXCEPT ![w] = "positioned"]
          /\ tx' = [tx EXCEPT ![w] =
                      [NoTx EXCEPT !.call = ncalls + 1, !.kind = "insert",
                                   !.events = events_, !.position = position,
                                   !.w_positions =
                                       {[position |-> position,
                                         timestamp |-> ncalls + 1,
                                         migration_index |-> migration_index,
                                         user_id |-> user_id,
                                         information |-> information]}]]
    /\ UNCHANGED <<events_seq, collectionfields_seq, tables, finished>>

\* insert_events up to create_position: an empty list raises BadCodingError,
\* otherwise the position row is inserted in the call's transaction
InsertEvents(w, events_, migration_index, information, user_id) ==
    /\ pc[w] = "idle"
    /\ ncalls < MaxCalls
    /\ ncalls' = ncalls + 1
    /\ IF events_ = <<>>
       THEN /\ pc' = [pc EXCEPT ![w] = "raised"]
            /\ tx' = [tx EXCEPT ![w] = [NoTx EXCEPT !.call = ncalls + 1, !.kind = "insert",
                                                    !.error = "BadCodingError"]]
            /\ UNCHANGED <<positions_seq, allocated>>
       ELSE LET position == create_position(positions_seq, positions)
            IN /\ positions_seq' = positions_seq + 1
               /\ allocated' = Append(allocated, position)
               /\ pc' = [pc EXCEPT ![w] = "positioned"]
               /\ tx' = [tx EXCEPT ![w] =
                           [NoTx EXCEPT !.call = ncalls + 1, !.kind = "insert",
                                        !.events = events_, !.position = position,
                                        !.w_positions =
                                            {[position |-> position,
                                              timestamp |-> ncalls + 1,
                                              migration_index |-> migration_index,
                                              user_id |-> user_id,
                                              information |-> information]}]]
    /\ UNCHANGED <<events_seq, collectionfields_seq, tables, finished>>

\* insert_events, get_models_from_events: a too long fqid raises InvalidFormat,
\* otherwise the committed models of the fqids are read
GetModels(w) ==
    /\ pc[w] = "positioned"
    /\ IF SomeFqidTooLong(tx[w].events)
       THEN /\ pc' = [pc EXCEPT ![w] = "raised"]
            /\ tx' = [tx EXCEPT ![w].error = "InvalidFormat"]
       ELSE /\ pc' = [pc EXCEPT ![w] = "fetched"]
            /\ tx' = [tx EXCEPT ![w].models = get_models_from_events(models, tx[w].events)]
    /\ UNCHANGED <<sequences, tables, ncalls, allocated, finished>>

\* insert_events from the translation loop to its last statement: a failed
\* precondition raises before any further statement; a too long collectionfield
\* raises after the id sequences, the models and the events were written
TranslateAndWrite(w) ==
    /\ pc[w] = "fetched"
    /\ LET t == tx[w]
           acc == TranslateLoop(t.events, LoopStart(t.models), t.position)
           w_ids == update_id_sequences(id_sequences, acc.max_id)
           w_mods == write_model_updates(models, acc.models)
           w_evs == write_events(acc.events_data, events_seq)
           event_ids == EventIds(acc.events_data, events_seq)
           rows == insert_modified_collectionfields_into_db(
                       collectionfields, acc.indices, t.position, collectionfields_seq)
           collectionfield_ids == [i \in 1..Len(rows) |-> rows[i].id]
           links == connect_events_and_collection_fields(
                       event_ids, collectionfield_ids, acc.indices)
       IN IF ~acc.ok
          THEN /\ pc' = [pc EXCEPT ![w] = "raised"]
               /\ tx' = [tx EXCEPT ![w].error = "ModelError"]
               /\ UNCHANGED <<events_seq, collectionfields_seq>>
          ELSE IF SomeCollectionfieldTooLong(acc.indices)
          THEN /\ Free(w, DOMAIN w_mods, DOMAIN w_ids, {})
               /\ pc' = [pc EXCEPT ![w] = "raised"]
               /\ tx' = [tx EXCEPT ![w].error = "InvalidFormat",
                                   ![w].models = acc.models,
                                   ![w].w_id_sequences = w_ids,
                                   ![w].w_models = w_mods,
                                   ![w].w_events = w_evs]
               /\ events_seq' = events_seq + Len(acc.events_data)
               /\ UNCHANGED collectionfields_seq
          ELSE /\ Free(w, DOMAIN w_mods, DOMAIN w_ids,
                       {rows[i].collectionfield : i \in 1..Len(rows)})
               /\ pc' = [pc EXCEPT ![w] = "written"]
               /\ tx' = [tx EXCEPT ![w].models = acc.models,
                                   ![w].w_id_sequences = w_ids,
                                   ![w].w_models = w_mods,
                                   ![w].w_events = w_evs,
                                   ![w].w_collectionfields = {rows[i] : i \in 1..Len(rows)},
                                   ![w].w_links = links]
               /\ events_seq' = events_seq + Len(acc.events_data)
               /\ collectionfields_seq' = collectionfields_seq + Len(acc.indices)
    /\ UNCHANGED <<positions_seq, tables, ncalls, allocated, finished>>

\* reserve_next_ids: the two checks, then the single upsert and the range
ReserveNextIds(w, collection, amount) ==
    /\ pc[w] = "idle"
    /\ ncalls < MaxCalls
    /\ ncalls' = ncalls + 1
    /\ LET t == [NoTx EXCEPT !.call = ncalls + 1, !.kind = "reserve",
                             !.collection = collection, !.amount = amount]
       IN IF amount <= 0 \/ NameLen(collection) > COLLECTION_MAX_LEN \/ collection = ""
          THEN /\ pc' = [pc EXCEPT ![w] = "raised"]
               /\ tx' = [tx EXCEPT ![w] = [t EXCEPT !.error = "InvalidFormat"]]
          ELSE LET new_max_id == ReserveUpsert(id_sequences, collection, amount)
               IN /\ Free(w, {}, {collection}, {})
                  /\ pc' = [pc EXCEPT ![w] = "written"]
                  /\ tx' = [tx EXCEPT ![w] =
                              [t EXCEPT !.w_id_sequences = (collection :> new_max_id),
                                        !.result = ReservedRange(new_max_id, amount)]]
    /\ UNCHANGED <<sequences, tables, allocated, finished>>

\* what a call leaves behind when it ends
Outcome(w) ==
    [call |-> tx[w].call, kind |-> tx[w].kind, error |-> tx[w].error,
     position |-> tx[w].position, rows |-> tx[w].w_events,
     collection |-> tx[w].collection, amount |-> tx[w].amount,
     result |-> tx[w].result]

\* the transaction commits: its writes become the committed rows
Commit(w) ==
    /\ pc[w] = "written"
    /\ positions' = positions \cup tx[w].w_positions
    /\ models' = Merge(models, tx[w].w_models)
    /\ id_sequences' = Merge(id_sequences, tx[w].w_id_sequences)
    /\ events' = events \cup tx[w].w_events
    /\ collectionfields' =
          {r \in collectionfields : r.collectionfield \notin LockedCollectionfields(w)}
          \cup tx[w].w_collectionfields
    /\ events_to_collectionfields' = events_to_collectionfields \cup tx[w].w_links
    /\ finished' = finished \cup {Outcome(w)}
    /\ pc' = [pc EXCEPT ![w] = "idle"]
    /\ tx' = [tx EXCEPT ![w] = NoTx]
    /\ UNCHANGED <<sequences, ncalls, allocated>>

\* the call raised: the transaction is rolled back, its writes are dropped
Rollback(w) ==
    /\ pc[w] = "raised"
    /\ UNCHANGED finished
    /\ pc' = [pc EXCEPT ![w] = "idle"]
    /\ tx' = [tx EXCEPT ![w] = NoTx]
    /\ UNCHANGED <<sequences, tables, ncalls, allocated>>

Next ==
    /\ UNCHANGED migration_vars
    /\ \E w \in Writers :
        \/ \E b \in Batches : InsertEvents(w, b, 1, "info", 1)
        \/ GetModels(w)
        \/ TranslateAndWrite(w)
        \/ \E a \in ReserveArgs : ReserveNextIds(w, a[1], a[2])
        \/ Commit(w)
        \/ Rollback(w)

Spec == Init /\ [][Next]_vars

\* calls run one after the other: at most one handler is inside a call
Serial == Cardinality({w \in Writers : pc'[w] # "idle"}) <= 1

SeqSpec == Init /\ [][Next /\ Serial]_vars


(* ----------------------- auxiliary operations ------------------------- *)

\* SQL NULL in the column information
NullInformation == "NULL"

\* the sequence keeps its value
restart_skipped(seq) == seq
\* ALTER SEQUENCE seq RESTART WITH 1: the next value of the sequence
restart_with_1(seq) == 1

\* the arguments a request passes to the route function
RouteArgs == {<<>>, <<"payload">>}

\* the route function is called whatever the mode is
dev_only_route_unguarded(is_dev_mode, args) ==
    [abort |-> 0, call |-> TRUE, args |-> args]
\* dev_only_route, wrapper: abort(404) outside dev mode, else fn(*args)
dev_only_route(is_dev_mode, args) ==
    IF ~is_dev_mode
    THEN [abort |-> 404, call |-> FALSE, args |-> <<>>]
    ELSE [abort |-> 0, call |-> TRUE, args |-> args]

\* what the route function of truncate_db returns for its arguments
RouteResponse(args) == <<"truncated", args>>

\* a request to the route of truncate_db, which dev_only_route wraps:
\* refused with 404, or truncate_db runs (every table emptied, the three
\* sequences restarted) and the function's response is returned
TruncateDbRoute(w, is_dev_mode, args) ==
    /\ pc[w] = "idle"
    /\ LET wrapper == dev_only_route(is_dev_mode, args)
           t == [NoTx EXCEPT !.kind = "truncate_db", !.dev_mode = is_dev_mode,
                             !.args = args]
       IN IF wrapper.call
          THEN /\ positions' = {}
               /\ models' = EmptyFn
               /\ events' = {}
               /\ collectionfields' = {}
               /\ events_to_collectionfields' = {}
               /\ id_sequences' = EmptyFn
               /\ positions_seq' = restart_with_1(positions_seq)
               /\ events_seq' = restart_with_1(events_seq)
               /\ collectionfields_seq' = restart_with_1(collectionfields_seq)
               /\ pc' = [pc EXCEPT ![w] = "returned"]
               /\ tx' = [tx EXCEPT ![w] =
                           [t EXCEPT !.fn_called = TRUE, !.fn_args = wrapper.args,
                                     !.result = RouteResponse(wrapper.args)]]
          ELSE /\ pc' = [pc EXCEPT ![w] = "raised"]
               /\ tx' = [tx EXCEPT ![w] = [t EXCEPT !.error = "NotFound"]]
               /\ UNCHANGED <<sequences, tables>>
    /\ UNCHANGED <<ncalls, allocated, finished>>

\* the user id of every position is set to 0 as well
DeleteHistoryInformation_and_user(w) ==
    /\ pc[w] = "idle"
    /\ positions' = {[r EXCEPT !.information = NullInformation, !.user_id = 0] :
                        r \in positions}
    /\ pc' = [pc EXCEPT ![w] = "returned"]
    /\ tx' = [tx EXCEPT ![w] = [NoTx EXCEPT !.kind = "delete_history_information"]]
    /\ UNCHANGED <<sequences, models, events, collectionfields,
                   events_to_collectionfields, id_sequences,
                   ncalls, allocated, finished>>

\* delete_history_information: UPDATE positions SET information = NULL
DeleteHistoryInformation(w) ==
    /\ pc[w] = "idle"
    /\ positions' = {[r EXCEPT !.information = NullInformation] : r \in positions}
    /\ pc' = [pc EXCEPT ![w] = "returned"]
    /\ tx' = [tx EXCEPT ![w] = [NoTx EXCEPT !.kind = "delete_history_information"]]
    /\ UNCHANGED <<sequences, models, events, collectionfields,
                   events_to_collectionfields, id_sequences,
                   ncalls, allocated, finished>>

\* the response of an auxiliary operation has been sent
Return(w) ==
    /\ pc[w] = "returned"
    /\ pc' = [pc EXCEPT ![w] = "idle"]
    /\ tx' = [tx EXCEPT ![w] = NoTx]
    /\ UNCHANGED <<sequences, tables, ncalls, allocated, finished>>

AuxiliaryNext ==
    /\ UNCHANGED migration_vars
    /\ \E w \in Writers :
        \/ \E is_dev_mode \in BOOLEAN : \E args \in RouteArgs :
               TruncateDbRoute(w, is_dev_mode, args)
        \/ DeleteHistoryInformation(w)
        \/ Return(w)

\* the writer with its auxiliary operations, calls one after the other
AuxiliarySpec == Init /\ [][(Next \/ AuxiliaryNext) /\ Serial]_vars

(* --------------------------- migration run ---------------------------- *)

\* number of positions migrate is called for in one behaviour
MaxPositions == 2

B2 == <<"b", 2>>
X1 == <<"x", 1>>

\* the original events of a position, as the history has recorded them
PositionLists ==
    { <<CreateEvent(A1, [f |-> 1]), CreateEvent(B1, [f |-> 1])>>,
      <<UpdateEvent(A1, [f |-> 2]), CreateEvent(A2, [f |-> 1]),
        DeleteFieldsEvent(B1, {"f"}), CreateEvent(B2, [f |-> 1])>>,
      <<DeleteEvent(A1), CreateEvent(A1, [g |-> 1])>>,
      <<CreateEvent(A2, [f |-> 1]), DeleteEvent(A2)>>,
      <<ListUpdateEvent(A1, [l |-> <<>>], EmptyFn),
        ListUpdateEvent(A1, [l |-> <<1>>], EmptyFn), UpdateEvent(A1, EmptyFn)>> }

\* the list is a history the writer can have recorded on top of the models:
\* a create meets no live model, every other event meets a live one
RECURSIVE ValidHistory(_, _)
ValidHistory(list, recorded) ==
    IF list = <<>> THEN TRUE
    ELSE /\ IF Head(list).type = "create"
            THEN ~Exists(Head(list).fqid, recorded)
            ELSE Exists(Head(list).fqid, recorded)
         /\ ValidHistory(Tail(list), apply_event(recorded, Head(list)))

\* the event object after a migration has emptied its payload in place
Mutated(event) == [event EXCEPT !.data = NoData]

\* what migrate_event of some migration does with an event: the object as
\* it leaves the call, and the return value (None, or a list of events)
TransformOutcomes(event) ==
    { [none |-> TRUE, event |-> event, list |-> <<>>],
      [none |-> TRUE, event |-> Mutated(event), list |-> <<>>],
      [none |-> FALSE, event |-> Mutated(event), list |-> <<Mutated(event)>>],
      [none |-> FALSE, event |-> event, list |-> <<>>],
      [none |-> FALSE, event |-> event,
       list |-> <<event, CreateEvent(X1, [f |-> 1])>>],
      [none |-> FALSE, event |-> event,
       list |-> <<event, UpdateEvent(event.fqid, EmptyFn)>>] }

\* the errors migrate_event of some migration raises
TransformErrors == {"MigrationException", "KeyError"}

\* what get_additional_events of some migration returns
HookOutcomes ==
    { [none |-> TRUE, list |-> <<>>],
      [none |-> FALSE, list |-> <<UpdateEvent(A1, EmptyFn)>>],
      [none |-> FALSE, list |-> <<CreateEvent(X1, [f |-> 2])>>] }

\* migrate is entered with a fresh new accessor
Migrate_fresh_accessor(list) ==
    /\ m_pc = "idle"
    /\ npositions < MaxPositions
    /\ ValidHistory(list, original)
    /\ npositions' = npositions + 1
    /\ position_events' = list
    /\ model_status' = set_model_status(list)
    /\ ordered' = order_events(list)
    /\ m_index' = 0
    /\ new_events' = <<>>
    /\ translated' = <<>>
    /\ additional' = <<>>
    /\ new_accessor' = EmptyFn
    /\ pre_new' = EmptyFn
    /\ pre_old' = old_accessor
    /\ m_pc' = "loop"
    /\ UNCHANGED <<old_accessor, original, returned_state, m_error, all_none>>

\* migrate, lines 70-76: the call is entered for the next position
Migrate(list) ==
    /\ m_pc = "idle"
    /\ npositions < MaxPositions
    /\ ValidHistory(list, original)
    /\ npositions' = npositions + 1
    /\ position_events' = list
    /\ model_status' = set_model_status(list)
    /\ ordered' = order_events(list)
    /\ m_index' = 0
    /\ new_events' = <<>>
    /\ translated' = <<>>
    /\ additional' = <<>>
    /\ pre_new' = new_accessor
    /\ pre_old' = old_accessor
    /\ m_pc' = "loop"
    /\ UNCHANGED <<old_accessor, new_accessor, original, returned_state, m_error,
                   all_none>>

\* the clone is taken after migrate_event has had the event
MigrateEvent_clone_after(outcome) ==
    /\ m_pc = "loop"
    /\ m_index < Len(ordered)
    /\ LET event == ordered[m_index + 1]
           old_event == clone(outcome.event)
           translated_events == IF outcome.none THEN <<old_event>> ELSE outcome.list
           filtered_events == filter_noop_events(translated_events)
       IN /\ outcome \in TransformOutcomes(event)
          /\ AllApplicable(new_accessor, filtered_events)
          /\ old_accessor' = apply_event(old_accessor, old_event)
          /\ new_accessor' = ApplyAll(new_accessor, filtered_events)
          /\ new_events' = new_events \o filtered_events
          /\ translated' = translated \o translated_events
    /\ all_none' = (all_none /\ outcome.none)
    /\ m_index' = m_index + 1
    /\ UNCHANGED <<m_pc, position_events, ordered, model_status, additional,
                   pre_new, pre_old, m_error, original, returned_state, npositions>>

\* migrate, lines 77-89: one pass of the loop over order_events
MigrateEvent(outcome) ==
    /\ m_pc = "loop"
    /\ m_index < Len(ordered)
    /\ LET event == ordered[m_index + 1]
           old_event == clone(event)
           translated_events == IF outcome.none THEN <<old_event>> ELSE outcome.list
           filtered_events == filter_noop_events(translated_events)
       IN /\ outcome \in TransformOutcomes(event)
          /\ AllApplicable(new_accessor, filtered_events)
          /\ old_accessor' = apply_event(old_accessor, old_event)
          /\ new_accessor' = ApplyAll(new_accessor, filtered_events)
          /\ new_events' = new_events \o filtered_events
          /\ translated' = translated \o translated_events
    /\ all_none' = (all_none /\ outcome.none)
    /\ m_index' = m_index + 1
    /\ UNCHANGED <<m_pc, position_events, ordered, model_status, additional,
                   pre_new, pre_old, m_error, original, returned_state, npositions>>

\* the error of migrate_event is caught and the event is passed over
MigrateEventRaises_caught(error) ==
    /\ m_pc = "loop"
    /\ m_index < Len(ordered)
    /\ m_error' = [transform |-> error, migrate |-> "none"]
    /\ m_index' = m_index + 1
    /\ UNCHANGED <<m_pc, position_events, ordered, old_accessor, new_accessor,
                   model_status, new_events, translated, additional, pre_new,
                   pre_old, all_none, original, returned_state, npositions>>

\* migrate, lines 77-79: migrate_event raises; migrate has no handler, the
\* error leaves the call and nothing is returned
MigrateEventRaises(error) ==
    /\ m_pc = "loop"
    /\ m_index < Len(ordered)
    /\ m_error' = [transform |-> error, migrate |-> error]
    /\ m_pc' = "raised"
    /\ UNCHANGED <<position_events, ordered, m_index, old_accessor, new_accessor,
                   model_status, new_events, translated, additional, pre_new,
                   pre_old, all_none, original, returned_state, npositions>>

\* migrate, lines 93-100: the hook after the loop, and the return
GetAdditionalEvents(outcome) ==
    /\ m_pc = "loop"
    /\ m_index = Len(ordered)
    /\ LET additional_events == IF outcome.none THEN <<>> ELSE outcome.list
       IN /\ AllApplicable(new_accessor, additional_events)
          /\ new_accessor' = ApplyAll(new_accessor, additional_events)
          /\ new_events' = new_events \o additional_events
          /\ additional' = additional_events
    /\ all_none' = (all_none /\ outcome.none)
    /\ original' = ApplyAll(original, position_events)
    /\ returned_state' = ApplyAll(returned_state, new_events')
    /\ m_pc' = "idle"
    /\ UNCHANGED <<position_events, ordered, m_index, old_accessor,
                   model_status, translated, pre_new, pre_old, m_error, npositions>>

MigrationNext ==
    /\ UNCHANGED writer_vars
    /\ \/ \E list \in PositionLists : Migrate(list)
       \/ \E event \in {ordered[i] : i \in 1..Len(ordered)} :
              \E outcome \in TransformOutcomes(event) : MigrateEvent(outcome)
       \/ \E error \in TransformErrors : MigrateEventRaises(error)
       \/ \E outcome \in HookOutcomes : GetAdditionalEvents(outcome)

MigrationSpec == Init /\ [][MigrationNext]_vars


(* ------------------------------ claims -------------------------------- *)

AllIdle == \A w \in Writers : pc[w] = "idle"

\* the events of a set of rows applied in (position, weight) order
RECURSIVE FoldRows(_, _)
FoldRows(rows, table) ==
    IF rows = {} THEN table
    ELSE LET first == CHOOSE e \in rows : \A o \in rows :
                          \/ e.position < o.position
                          \/ e.position = o.position /\ e.weight <= o.weight
         IN FoldRows(rows \ {first}, ApplyAndStamp(first, table, first.position))

\* the model table that folding the stored events of one fqid gives
Folded(fqid) == FoldRows({e \in events : e.fqid = fqid}, EmptyFn)

\* C1: after any sequence of successful insert_events calls, the persisted
\* snapshot of every fqid (its data, deleted flag and position stamp) is the
\* fold of the events stored for it in (position, weight) order, starting
\* from an absent model
C1_SnapshotIsFold ==
    \A fqid \in DOMAIN models \cup {e.fqid : e \in events} :
        /\ fqid \in DOMAIN models
        /\ fqid \in DOMAIN Folded(fqid)
        /\ models[fqid] = Folded(fqid)[fqid]

\* a model whose events lie in two positions and include a removal of fields
C1_Witness ==
    /\ AllIdle
    /\ \E fqid \in DOMAIN models :
          /\ Cardinality({e.position : e \in {x \in events : x.fqid = fqid}}) >= 2
          /\ \E e \in events : e.fqid = fqid /\ e.type = "delete_fields"

\* the positions of the events linked to a collectionfield row
LinkedPositions(r) ==
    {e.position : e \in {x \in events : <<x.id, r.id>> \in events_to_collectionfields}}

\* C2: in every reachable state, also when concurrent transactions commit in
\* another order than their positions were allocated, the position of each
\* collectionfield row is the maximum position of the events linked to it
C2_PositionIsMaxLinked ==
    \A r \in collectionfields :
        /\ LinkedPositions(r) # {}
        /\ r.position \in LinkedPositions(r)
        /\ \A p \in LinkedPositions(r) : p <= r.position

\* C3: no two calls are assigned the same position (each allocated position
\* is greater than all allocated before), a position in use by a running call
\* is not committed yet, and every committed position carries exactly the
\* event rows of the one call that returned it
C3_PositionsDistinct ==
    /\ \A i, j \in 1..Len(allocated) : i < j => allocated[i] < allocated[j]
    /\ \A w \in Writers : tx[w].position # 0 =>
          /\ tx[w].position \notin {r.position : r \in positions}
          /\ \A v \in Writers \ {w} : tx[v].position # tx[w].position
    /\ \A e \in events : e.position \in {r.position : r \in positions}
    /\ \A r \in positions :
          /\ Cardinality({q \in positions : q.position = r.position}) = 1
          /\ \E f \in finished :
                /\ f.kind = "insert" /\ f.position = r.position
                /\ {e \in events : e.position = r.position} = f.rows
                /\ \A g \in finished :
                      g.kind = "insert" /\ g.position = r.position => g = f

\* two calls have committed, the later allocated position first
C3_Witness ==
    /\ Cardinality(positions) = 1
    /\ \E r \in positions : r.position = 2
    /\ \E w \in Writers : pc[w] = "written" /\ tx[w].position = 1 /\ tx[w].w_events # {}

\* the transaction of a call has issued no write
NoWrites(t) ==
    /\ t.w_positions = {} /\ t.w_events = {} /\ t.w_collectionfields = {}
    /\ t.w_links = {} /\ DOMAIN t.w_models = {} /\ DOMAIN t.w_id_sequences = {}

\* some write-intent of the list fails its precondition when the intents are
\* translated and applied in order, starting from the prefetched models
RECURSIVE SomeIntentFails(_, _)
SomeIntentFails(intents, acc) ==
    IF intents = <<>> THEN FALSE
    ELSE \/ ~PreconditionHolds(Head(intents), acc.models)
         \/ SomeIntentFails(Tail(intents),
                HandleDbEvents(translate(Head(intents), acc.models), acc, 1))

\* one step of a handler, as C4 requires it
C4_Step ==
    \A w \in Writers :
        /\ (/\ pc[w] = "fetched" /\ pc'[w] # "fetched"
            /\ SomeIntentFails(tx[w].events, LoopStart(tx[w].models)))
           => /\ pc'[w] = "raised"
              /\ tx'[w].error = "ModelError"
              /\ [tx'[w] EXCEPT !.error = "none"] = tx[w]
              /\ UNCHANGED <<tables, events_seq, collectionfields_seq>>
        /\ (pc[w] = "raised" /\ tx[w].error = "ModelError" /\ pc'[w] # "raised")
           => /\ pc'[w] = "idle"
              /\ UNCHANGED tables

\* C4: a call one of whose write-intents fails its precondition, also after
\* earlier intents of the call translated, raises and writes nothing; its
\* transaction is then rolled back, and neither step changes a committed row
C4_NothingPersisted == [][C4_Step]_vars

\* a call whose second write-intent failed has raised, while rows are committed
C4_Witness ==
    \E w \in Writers :
        /\ pc[w] = "raised" /\ tx[w].error = "ModelError"
        /\ Len(tx[w].events) = 2
        /\ PreconditionHolds(tx[w].events[1], tx[w].models)
        /\ events # {}

\* one step of a handler, as C5 requires it
C5_Step ==
    \A w \in Writers :
        /\ (pc[w] = "idle" /\ pc'[w] # "idle"
            /\ tx'[w].kind = "insert" /\ tx'[w].events = <<>>)
           => /\ pc'[w] = "raised"
              /\ tx'[w].error = "BadCodingError"
              /\ tx'[w].position = 0
              /\ NoWrites(tx'[w])
              /\ UNCHANGED <<tables, sequences, allocated>>
        /\ (pc[w] = "raised" /\ tx[w].error = "BadCodingError" /\ pc'[w] # "raised")
           => /\ pc'[w] = "idle"
              /\ UNCHANGED <<tables, sequences, allocated>>

\* C5: insert_events with an empty list raises BadCodingError; no position is
\* allocated, no write is issued, and the tables stay as they are
C5_EmptyListRaises == [][C5_Step]_vars

\* a call with an empty list has raised, while rows are committed
C5_Witness ==
    \E w \in Writers :
        /\ pc[w] = "raised" /\ tx[w].error = "BadCodingError"
        /\ positions # {} /\ events # {}

\* C6: when insert_events raises a format error (fqid longer than 48,
\* collectionfield longer than 239), no write has been issued yet: no position
\* row, no model, no id sequence and no event row
C6_NoWriteBeforeFormatError ==
    \A w \in Writers :
        (pc[w] = "raised" /\ tx[w].kind = "insert" /\ tx[w].error = "InvalidFormat")
        => /\ tx[w].w_positions = {}
           /\ tx[w].w_events = {}
           /\ DOMAIN tx[w].w_models = {}
           /\ DOMAIN tx[w].w_id_sequences = {}

\* what C7 says of the rows of position p
C7_Post(p, evs, cfs, links) ==
    LET mine == {e \in evs : e.position = p}
        touched == UNION {{<<e.fqid, f>> : f \in e.modified} : e \in mine}
    IN /\ \A key \in touched :
             LET rows == {r \in cfs : r.collectionfield[1] = key[1]
                                      /\ r.collectionfield[2] = key[2]}
             IN /\ Cardinality(rows) = 1
                /\ \A r \in rows :
                      /\ r.position = p
                      /\ {e.id : e \in {x \in mine : <<x.id, r.id>> \in links}}
                         = {e.id : e \in {x \in mine : x.fqid = key[1]
                                                       /\ key[2] \in x.modified}}
       /\ \A e \in mine : \A r \in cfs :
             <<e.id, r.id>> \in links
             => r.collectionfield[1] = e.fqid /\ r.collectionfield[2] \in e.modified

\* one step of a handler, as C7 requires it
C7_Step ==
    \A w \in Writers :
        (pc[w] = "written" /\ tx[w].kind = "insert" /\ pc'[w] = "idle")
        => C7_Post(tx[w].position, events', collectionfields',
                   events_to_collectionfields')

SequenceOf(table, collection) ==
    IF collection \in DOMAIN table THEN table[collection] ELSE 1

ReserveCalls == {f \in finished : f.kind = "reserve"}

\* C8: a reserve_next_ids call with amount >= 1 and a valid collection returns
\* [s, ..., s + amount - 1], s being the sequence before the call (1 without a
\* row), and leaves the sequence at s + amount; at 10, amount 3 gives
\* [10, 11, 12] and leaves 13
C8_ReservedBlock ==
    \A w \in Writers :
        (pc[w] = "written" /\ tx[w].kind = "reserve")
        => LET s == SequenceOf(id_sequences, tx[w].collection)
               amount == tx[w].amount
           IN /\ amount >= 1
              /\ tx[w].result = [i \in 1..amount |-> s + i - 1]
              /\ tx[w].w_id_sequences = (tx[w].collection :> s + amount)
              /\ (s = 10 /\ amount = 3)
                 => /\ tx[w].result = <<10, 11, 12>>
                    /\ tx[w].w_id_sequences[tx[w].collection] = 13

\* at sequence 10 a call with amount 3 has returned, and the following call
\* with amount 1 returns [13]
C8_Witness ==
    /\ \E f \in ReserveCalls : f.amount = 3 /\ f.result = <<10, 11, 12>>
    /\ \E w \in Writers : /\ pc[w] = "written" /\ tx[w].kind = "reserve"
                          /\ tx[w].amount = 1 /\ tx[w].result = <<13>>
                          /\ id_sequences["a"] = 13

\* the ids of a returned block
Ids(result) == {result[i] : i \in 1..Len(result)}

\* the blocks that were returned or are about to be, with their calls
Blocks ==
    {[call |-> f.call, collection |-> f.collection, amount |-> f.amount,
      result |-> f.result] : f \in ReserveCalls}
    \cup {[call |-> tx[w].call, collection |-> tx[w].collection,
           amount |-> tx[w].amount, result |-> tx[w].result] :
             w \in {v \in Writers : pc[v] = "written" /\ tx[v].kind = "reserve"}}

\* C9: whatever the interleaving of the reserve_next_ids calls, the blocks
\* returned to different calls on one collection are pairwise disjoint, and
\* each block holds exactly amount ids
C9_BlocksDisjoint ==
    \A b \in Blocks :
        /\ Len(b.result) = b.amount
        /\ Cardinality(Ids(b.result)) = b.amount
        /\ \A c \in Blocks :
              (c.call # b.call /\ c.collection = b.collection)
              => Ids(b.result) \cap Ids(c.result) = {}

\* two calls on one collection hold blocks, the second not committed yet,
\* while the other handler is inside a call of its own
C9_Witness ==
    \E b \in ReserveCalls : \E w \in Writers :
        /\ pc[w] = "written" /\ tx[w].kind = "reserve"
        /\ tx[w].collection = b.collection /\ tx[w].call # b.call
        /\ \A v \in Writers \ {w} : pc[v] # "idle"

\* the ids of the models of a collection that committed create events introduced
CreatedIds(collection) ==
    {e.fqid[2] : e \in {x \in events : x.type = "create" /\ x.fqid[1] = collection}}

\* the ids reserve_next_ids has returned for a collection
ReturnedIds(collection) ==
    UNION {Ids(f.result) : f \in {g \in ReserveCalls : g.collection = collection}}

C10_Above ==
    /\ \A e \in events : e.type = "create" => e.fqid[1] \in DOMAIN id_sequences
    /\ \A f \in ReserveCalls : f.collection \in DOMAIN id_sequences
    /\ \A c \in DOMAIN id_sequences :
          \A id \in CreatedIds(c) \cup ReturnedIds(c) : id_sequences[c] > id
    /\ \A w \in Writers :
          (pc[w] = "written" /\ tx[w].kind = "reserve")
          => Ids(tx[w].result) \cap CreatedIds(tx[w].collection) = {}

C10_Step ==
    \A c \in DOMAIN id_sequences :
        c \in DOMAIN id_sequences' /\ id_sequences'[c] >= id_sequences[c]

\* C10: the id sequence of a collection never decreases, and it is greater
\* than every id a committed create event introduced in the collection and
\* than every id reserve_next_ids returned for it; so a reserved block holds
\* no id of an earlier create event
C10_SequenceAboveIds == []C10_Above /\ [][C10_Step]_vars

\* a create event was committed after ids above its id had been reserved
C10_Witness ==
    /\ "a" \in DOMAIN id_sequences
    /\ CreatedIds("a") # {}
    /\ ReturnedIds("a") # {}
    /\ \E id \in CreatedIds("a") : id_sequences["a"] > id + 1

(* --------------------- claims on the migration run -------------------- *)

\* migrate has returned for at least one position
Returned == m_pc = "idle" /\ npositions > 0

\* an event without effect: an update with empty data, a delete_fields
\* without fields, a list_update whose add and remove hold no value
NoEffect(e) ==
    \/ e.type = "update" /\ DOMAIN e.data.fields = {}
    \/ e.type = "delete_fields" /\ Cardinality(e.data.names) = 0
    \/ /\ e.type = "list_update"
       /\ \A k \in DOMAIN e.data.add : Len(e.data.add[k]) = 0
       /\ \A k \in DOMAIN e.data.remove : Len(e.data.remove[k]) = 0

WithEffect(list) == SelectSeq(list, LAMBDA e : ~NoEffect(e))

\* C11 as stated: the list migrate returns is what the per-event transform
\* and the end-of-position hook produced, with every event without effect
\* removed and nothing else removed.
C11_NoNoopReturned ==
    Returned => new_events = WithEffect(translated \o additional)

\* C11, amended: the list migrate builds is what the per-event transform
\* produced so far with every event without effect removed and nothing else
\* removed (every create and delete is kept, whatever its payload),
\* followed by the events of the end-of-position hook, all of them, with
\* or without effect.
C11_TransformFilteredHookAppended ==
    new_events = WithEffect(translated) \o additional

C11_Witness ==
    /\ Returned
    /\ \E i \in 1..Len(translated) : NoEffect(translated[i])
    /\ \E i \in 1..Len(translated) : translated[i].type = "delete"
    /\ \E i \in 1..Len(translated) :
           translated[i].type = "create" /\ translated[i].data = NoData
    /\ \E i \in 1..Len(additional) : NoEffect(additional[i])

IsCreate(e) == e.type = "create"
IsOther(e) == e.type # "create"

\* how often the event e occurs in the list
Count(list, e) == Cardinality({i \in 1..Len(list) : list[i] = e})

\* C12: order_events returns a permutation of its input in which every
\* create comes before every other event, the creates keep their relative
\* input order and so do the other events; on [update(B), create(A),
\* delete_fields(C), create(D)] it yields [create(A), create(D), update(B),
\* delete_fields(C)].
C12_CreatesFirstStable ==
    /\ Len(ordered) = Len(position_events)
    /\ \A i \in 1..Len(position_events) :
           Count(ordered, position_events[i]) = Count(position_events, position_events[i])
    /\ \A i, j \in 1..Len(ordered) :
           i < j /\ IsCreate(ordered[j]) => IsCreate(ordered[i])
    /\ SelectSeq(ordered, IsCreate) = SelectSeq(position_events, IsCreate)
    /\ SelectSeq(ordered, IsOther) = SelectSeq(position_events, IsOther)
    /\ position_events =
           <<UpdateEvent(A1, [f |-> 2]), CreateEvent(A2, [f |-> 1]),
             DeleteFieldsEvent(B1, {"f"}), CreateEvent(B2, [f |-> 1])>>
       => ordered =
           <<CreateEvent(A2, [f |-> 1]), CreateEvent(B2, [f |-> 1]),
             UpdateEvent(A1, [f |-> 2]), DeleteFieldsEvent(B1, {"f"})>>

C12_Witness ==
    /\ m_pc = "loop"
    /\ Len(position_events) = 4
    /\ IsOther(position_events[1]) /\ IsCreate(position_events[2])
    /\ IsOther(position_events[3]) /\ IsCreate(position_events[4])
    /\ ordered # position_events

\* the fqids will_exist is asked about
Fqids == {A1, A2, B1, B2, X1}

\* C13: once migrate has finished a position, will_exist(fqid) equals the
\* value that the position's model_status and the new accessor's state from
\* before the position give: (not deleted before the position and status is
\* not delete) or status is create.
C13_WillExistFromPreState ==
    Returned =>
        \A fqid \in Fqids :
            will_exist(fqid, new_accessor, model_status)
              <=> \/ /\ model_not_deleted(pre_new, fqid)
                     /\ StatusGet(model_status, fqid) # "delete"
                  \/ StatusGet(model_status, fqid) = "create"

\* C14: after migrate has processed the positions so far, the old
\* accessor's state (the fqids present, their data and deleted flag) is the
\* state as originally recorded: the fold of the untouched original events
\* of these positions in their original order, whatever the per-event
\* transform returns or changes.
C14_OldAccessorIsOriginalFold ==
    Returned => View(old_accessor) = View(original)

\* the model exists once the original events of the position are applied
\* to the models as recorded before it
WouldExist(fqid) == Exists(fqid, ApplyAll(original, position_events))

\* C19: at any point while a position is being migrated, will_exist(fqid)
\* is true iff the model would exist (created and not deleted) after all
\* original events of the position applied to the state before the
\* migration, that is without the migration.
C19_WillExistIsOriginalOutcome ==
    m_pc = "loop" =>
        \A fqid \in Fqids :
            will_exist(fqid, new_accessor, model_status) <=> WouldExist(fqid)

\* the events of the position that create, and that delete, the model
Creates(fqid) ==
    {i \in 1..Len(position_events) :
        position_events[i].type = "create" /\ position_events[i].fqid = fqid}

Deletes(fqid) ==
    {i \in 1..Len(position_events) :
        position_events[i].type = "delete" /\ position_events[i].fqid = fqid}

MemoryModels ==
    [q \in {f \in DOMAIN models : ~models[f].deleted} |-> models[q].data]

\* the fqids the readers are asked about
ReaderFqids == {A1, A2, B1, Long1, <<"c", 1>>}

Truths(set) == Cardinality({b \in set : b[2]})

\* C15: for both reader implementations and every fqid, is_alive and
\* is_deleted are never both true and model_exists is true iff exactly one
\* of them is; is_alive is true iff a record exists and is not deleted,
\* is_deleted iff a record exists and is deleted; the in-memory
\* implementation reports is_deleted false for every fqid.
C15_AliveDeletedExists ==
    \A fqid \in ReaderFqids :
        LET alive == is_alive(models, fqid)
            deleted == is_deleted(models, fqid)
            m_alive == memory_is_alive(MemoryModels, fqid)
            m_deleted == memory_is_deleted(MemoryModels, fqid)
        IN /\ ~(alive /\ deleted)
           /\ model_exists(models, fqid)
                 <=> Truths({<<"alive", alive>>, <<"deleted", deleted>>}) = 1
           /\ alive <=> \E q \in DOMAIN models : q = fqid /\ ~models[q].deleted
           /\ deleted <=> \E q \in DOMAIN models : q = fqid /\ models[q].deleted
           /\ ~(m_alive /\ m_deleted)
           /\ memory_model_exists(MemoryModels, fqid)
                 <=> Truths({<<"alive", m_alive>>, <<"deleted", m_deleted>>}) = 1
           /\ m_alive <=> \E q \in DOMAIN MemoryModels : q = fqid
           /\ ~m_deleted

C15_Witness ==
    /\ AllIdle
    /\ \E fqid \in ReaderFqids : is_deleted(models, fqid)
    /\ \E fqid \in ReaderFqids :
           is_alive(models, fqid) /\ memory_is_alive(MemoryModels, fqid)
    /\ \E fqid \in ReaderFqids :
           ~model_exists(models, fqid) /\ ~memory_model_exists(MemoryModels, fqid)

(* ------------------- claims on the auxiliary operations --------------- *)

\* every table is empty and the three sequences are at their start
Truncated ==
    /\ positions = {}
    /\ models = EmptyFn
    /\ events = {}
    /\ collectionfields = {}
    /\ events_to_collectionfields = {}
    /\ id_sequences = EmptyFn
    /\ positions_seq = 1
    /\ events_seq = 1
    /\ collectionfields_seq = 1

\* handler w answers a request to the route of truncate_db in this step
TruncateRequest(w) ==
    pc[w] = "idle" /\ pc'[w] # "idle" /\ tx'[w].kind = "truncate_db"

C16_Step ==
    \A w \in Writers :
        TruncateRequest(w) =>
            IF tx'[w].dev_mode
            THEN /\ pc'[w] = "returned"
                 /\ tx'[w].fn_called
                 /\ tx'[w].fn_args = tx'[w].args
                 /\ tx'[w].result = <<"truncated", tx'[w].args>>
                 /\ Truncated'
            ELSE /\ pc'[w] = "raised"
                 /\ tx'[w].error = "NotFound"
                 /\ ~tx'[w].fn_called
                 /\ UNCHANGED <<sequences, tables>>

\* C16: the operation that dev_only_route wraps (truncate_db) is never
\* executed while the environment is not in development mode: the request
\* is aborted with 404 before the wrapped function is called; in
\* development mode the wrapped function is called with the unchanged
\* arguments and its result is returned.
C16_DevOnly == [][C16_Step]_vars

C16_Witness ==
    \E w \in Writers :
        /\ pc[w] = "raised"
        /\ tx[w].kind = "truncate_db"
        /\ ~tx[w].dev_mode
        /\ tx[w].args # <<>>
        /\ positions # {}
        /\ models # EmptyFn

\* C17: truncate_db is idempotent: from any reachable store state, one
\* call and two calls in succession both leave every table empty and the
\* position, event-id and collectionfield-id sequences reset, so that the
\* next insert_events after it is assigned position 1.
C17_TruncateIdempotent ==
    /\ [](\A w \in Writers :
             pc[w] = "returned" /\ tx[w].kind = "truncate_db" => Truncated)
    /\ [][\A w \in Writers :
             /\ Truncated /\ TruncateRequest(w) /\ tx'[w].dev_mode
                   => UNCHANGED <<sequences, tables>>
             /\ Truncated /\ pc[w] = "idle" /\ pc'[w] = "positioned"
                   => tx'[w].position = 1]_vars

C17_Witness ==
    \E w \in Writers :
        /\ pc[w] = "positioned"
        /\ tx[w].position = 1
        /\ allocated = <<1, 2, 1>>
        /\ positions = {}
        /\ events = {}

\* C18: delete_history_information sets the information of every position
\* to null and changes nothing else: the identifier, timestamp, migration
\* index and user id of every position, and every event, model,
\* collectionfield, link and id-sequence row are unchanged.
C18_OnlyInformationNulled ==
    [][\A w \in Writers :
          pc[w] = "idle" /\ pc'[w] = "returned"
             /\ tx'[w].kind = "delete_history_information"
          => /\ \A r \in positions' : r.information = "NULL"
             /\ Cardinality(positions') = Cardinality(positions)
             /\ \A r \in positions : \E n \in positions' :
                    /\ n.position = r.position
                    /\ n.timestamp = r.timestamp
                    /\ n.migration_index = r.migration_index
                    /\ n.user_id = r.user_id
             /\ UNCHANGED <<models, events, collectionfields,
                            events_to_collectionfields, id_sequences, sequences>>]_vars

C18_Witness ==
    \E w \in Writers :
        /\ pc[w] = "returned"
        /\ tx[w].kind = "delete_history_information"
        /\ Cardinality(positions) = 2
        /\ \A r \in positions : r.information = "NULL"
        /\ events # {}

(* ----------------------- claims on event weights ---------------------- *)

\* the db events translated from the write-intents, in the order of the
\* intents and, within one intent, of its translation
RECURSIVE Translated(_, _)
Translated(intents, table) ==
    IF intents = <<>> THEN <<>>
    ELSE translate(Head(intents), table) \o Translated(Tail(intents), table)

\* the rows carry the weights 1..n once each, the row of weight k holding
\* the k-th of the expected events
WeightsFollow(rows, expected) ==
    /\ Cardinality(rows) = Len(expected)
    /\ \A k \in 1..Len(expected) :
          \E r \in rows :
             /\ r.weight = k
             /\ r.type = expected[k].type
             /\ r.fqid = expected[k].fqid
             /\ r.data = expected[k].data
             /\ \A o \in rows : o.weight = k => o = r

C21_Stored ==
    \A p \in positions :
        LET rows == {e \in events : e.position = p.position}
        IN /\ {e.weight : e \in rows} = 1..Cardinality(rows)
           /\ \A e, o \in rows : e.weight = o.weight => e = o

C21_Step ==
    \A w \in Writers :
        pc[w] = "fetched" /\ pc'[w] = "written" =>
            WeightsFollow(tx'[w].w_events, Translated(tx[w].events, tx[w].models))

\* C21: in a successful insert_events call the stored events carry the
\* weights 1, 2, ..., n without gap or repetition, n being the number of
\* low-level events translated from all write-intents of the call; the
\* weights follow the order of the write-intents and, within one intent,
\* the order in which translation produced the events.
C21_WeightsRunFromOne == []C21_Stored /\ [][C21_Step]_vars

C21_Witness ==
    \E p \in positions :
        LET rows == {e \in events : e.position = p.position}
        IN /\ Cardinality(rows) = 3
           /\ \E e \in rows : e.weight = 1 /\ e.type = "create"
           /\ \E e \in rows : e.weight = 2 /\ e.type = "update"
           /\ \E e \in rows : e.weight = 3 /\ e.type = "delete_fields"

(* ------------------ claims on the order within migrate ---------------- *)

\* the per-event transform is about to be invoked on a non-create event
TransformOnOther ==
    /\ m_pc = "loop"
    /\ m_index < Len(ordered)
    /\ IsOther(ordered[m_index + 1])

\* the events the loop of migrate has dealt with so far
Processed == SubSeq(ordered, 1, m_index)

\* C22: whenever the per-event transform is invoked on a non-create event,
\* every create event of the position has already been passed to the
\* transform and applied to the old accessor, and its surviving replacements
\* have been applied to the new accessor; the model the non-create event
\* refers to is present in the old accessor at that moment.
C22_CreatesBeforeOthers ==
    TransformOnOther =>
        /\ \A i \in 1..Len(position_events) :
              IsCreate(position_events[i]) =>
                 /\ Count(Processed, position_events[i])
                       = Count(position_events, position_events[i])
                 /\ position_events[i].fqid \in DOMAIN old_accessor
        /\ new_accessor = ApplyAll(pre_new, new_events)
        /\ ordered[m_index + 1].fqid \in DOMAIN old_accessor

C22_Witness ==
    /\ TransformOnOther
    /\ \E i, j \in 1..Len(position_events) :
          /\ i < j
          /\ IsOther(position_events[i])
          /\ IsCreate(position_events[j])
          /\ position_events[i].fqid = position_events[j].fqid
    /\ ordered[m_index + 1].type = "delete"

(* -------------------- claims on the accessors' state ------------------ *)

C23_Fold ==
    /\ Returned => View(new_accessor) = View(returned_state)
    /\ m_pc = "loop" => View(new_accessor) = View(ApplyAll(returned_state, new_events))

C23_Step ==
    /\ DOMAIN old_accessor \subseteq DOMAIN old_accessor'
    /\ DOMAIN new_accessor \subseteq DOMAIN new_accessor'
    /\ m_pc = "idle" /\ m_pc' = "loop"
          => old_accessor' = old_accessor /\ new_accessor' = new_accessor

\* C23: the accessors are not reset between positions, and after migrate
\* has processed the positions so far the new accessor's state is the fold
\* of the concatenation of the event lists migrate returned for them,
\* applied in the order of those lists (surviving replacements in
\* processing order, then the additional events).
C23_NewAccessorIsFoldOfReturned == []C23_Fold /\ [][C23_Step]_vars

C23_Witness ==
    /\ Returned
    /\ npositions = 2
    /\ additional # <<>>
    /\ Len(new_events) > Len(additional)
    /\ View(new_accessor) # View(old_accessor)
    /\ \E q \in DOMAIN pre_new : new_accessor[q] # pre_new[q]

(* ----------------------- claims on a failed position ------------------ *)

\* migrate_event raises in this step
TransformRaises == m_error.transform = "none" /\ m_error'.transform # "none"

\* C24 as stated: when the per-event transform raises on an event of a
\* position, neither accessor keeps the effect of only a prefix of that
\* position's events: both are as they were before the position.
C24_NoPartialRewrite ==
    m_pc = "raised" =>
        /\ View(old_accessor) = View(pre_old)
        /\ View(new_accessor) = View(pre_new)

C24_Raised ==
    m_pc = "raised" =>
        /\ m_error.migrate = m_error.transform
        /\ m_index < Len(ordered)
        /\ View(returned_state) = View(pre_new)
        /\ View(old_accessor) = View(ApplyAll(pre_old, Processed))
        /\ new_events = WithEffect(translated)
        /\ View(new_accessor) = View(ApplyAll(pre_new, new_events))

C24_Step ==
    TransformRaises =>
        /\ m_pc' = "raised"
        /\ m_error'.migrate = m_error'.transform
        /\ UNCHANGED <<old_accessor, new_accessor, returned_state>>

\* C24, amended: when the per-event transform raises on an event of a
\* position, migrate raises the same error and returns no event list for
\* the position; the accessors keep the effect of the events processed
\* before the failing one (the old accessor their clones, the new accessor
\* their surviving replacements) and nothing of the failing or any later
\* event.
C24_RaisePropagates == []C24_Raised /\ [][C24_Step]_vars

C24_Witness ==
    /\ m_pc = "raised"
    /\ m_index = 1
    /\ Len(ordered) = 2
    /\ npositions = 2
    /\ View(old_accessor) # View(pre_old)
    /\ View(new_accessor) # View(pre_new)

(* --------------------- claims on a migration of None ------------------ *)

\* the creates of the list in their order, then its other events in theirs
CreatesFirst(list) == SelectSeq(list, IsCreate) \o SelectSeq(list, IsOther)

\* C25: for a migration whose per-event transform and end-of-position hook
\* return None every time, accessors that start equal hold the same data
\* and deleted flag for every fqid after every position, and the list
\* migrate returns is the position's original events, unmodified also when
\* the transform changed the event object it was given, in creates-first
\* order with the no-op events removed.
C25_NoneKeepsAccessorsEqual ==
    all_none /\ m_pc # "raised" =>
        /\ View(old_accessor) = View(new_accessor)
        /\ Returned => new_events = WithEffect(CreatesFirst(position_events))

C25_Witness ==
    /\ Returned
    /\ all_none
    /\ npositions = 2
    /\ Len(position_events) = 3
    /\ Len(new_events) = 1
    /\ DOMAIN new_accessor # {}

====
